---- MODULE Spec2Model ----
(***************************************************************************)
(* Inventory optimizer (src/app.py): the schema adapter                    *)
(* load_and_process_data, its st.cache_data memoization, and the Streamlit *)
(* main script that selects a SKU and computes EOQ, safety stock, reorder  *)
(* point and annual cost.                                                  *)
(*                                                                         *)
(* A column name is a sequence of one-character strings, so that           *)
(* str.strip() and str.title() are computed character by character.        *)
(* A cell is an integer, or a string; the empty string is the empty CSV    *)
(* cell, which pandas reads as NaN.                                        *)
(***************************************************************************)
EXTENDS Integers, Sequences, FiniteSets, TLC

VARIABLES sales_file, uploaded_file, cache, rng, df, last_load,
          selected_sku, holding_cost, lead_time, ordering_cost, view

vars == <<sales_file, uploaded_file, cache, rng, df, last_load,
          selected_sku, holding_cost, lead_time, ordering_cost, view>>

(***************************************************************************)
(* Bounds of the model                                                     *)
(***************************************************************************)
\* The largest number of data rows of an uploaded file.
MaxRows == 2

(***************************************************************************)
(* Python str methods                                                      *)
(***************************************************************************)
LowerCase == <<"a","b","c","d","e","f","g","h","i","j","k","l","m",
               "n","o","p","q","r","s","t","u","v","w","x","y","z">>
UpperCase == <<"A","B","C","D","E","F","G","H","I","J","K","L","M",
               "N","O","P","Q","R","S","T","U","V","W","X","Y","Z">>

IsLower(c) == \E i \in DOMAIN LowerCase : LowerCase[i] = c
IsUpper(c) == \E i \in DOMAIN UpperCase : UpperCase[i] = c
IsCased(c) == IsLower(c) \/ IsUpper(c)

\* str.upper() / str.lower() of one character
Upper(c) == IF IsLower(c)
            THEN UpperCase[CHOOSE i \in DOMAIN LowerCase : LowerCase[i] = c]
            ELSE c
Lower(c) == IF IsUpper(c)
            THEN LowerCase[CHOOSE i \in DOMAIN UpperCase : UpperCase[i] = c]
            ELSE c

\* str.strip(): leading and trailing whitespace removed
RECURSIVE LStrip(_)
LStrip(s) == IF s # <<>> /\ Head(s) = " " THEN LStrip(Tail(s)) ELSE s
RECURSIVE RStrip(_)
RStrip(s) == IF s # <<>> /\ s[Len(s)] = " "
             THEN RStrip(SubSeq(s, 1, Len(s) - 1)) ELSE s
Strip(s) == RStrip(LStrip(s))

\* str.title(): a cased character is upper-cased when the character before
\* it is not cased (or it is the first), lower-cased otherwise.
Title(s) == [i \in DOMAIN s |->
               IF i > 1 /\ IsCased(s[i - 1]) THEN Lower(s[i]) ELSE Upper(s[i])]

(***************************************************************************)
(* The internal column names of load_and_process_data                      *)
(***************************************************************************)
Store        == <<"S","t","o","r","e">>
SKU          == <<"S","K","U">>
Quantity     == <<"Q","u","a","n","t","i","t","y">>
Price        == <<"P","r","i","c","e">>
Date         == <<"D","a","t","e">>
Total        == <<"T","o","t","a","l">>
Weekly_Sales == <<"W","e","e","k","l","y","_","S","a","l","e","s">>

Branch       == <<"B","r","a","n","c","h">>
StoreName    == <<"S","t","o","r","e"," ","N","a","m","e">>
ProductLine  == <<"P","r","o","d","u","c","t"," ","L","i","n","e">>
Dept         == <<"D","e","p","t">>
Category     == <<"C","a","t","e","g","o","r","y">>
Qty          == <<"Q","t","y">>
SalesQty     == <<"S","a","l","e","s"," ","Q","t","y">>
UnitPrice    == <<"U","n","i","t"," ","P","r","i","c","e">>
PricePerUnit == <<"P","r","i","c","e"," ","P","e","r"," ","U","n","i","t">>
InvoiceDate  == <<"I","n","v","o","i","c","e"," ","D","a","t","e">>

\* column_mapping: <<alias, standard name>>
column_mapping ==
    { <<Branch, Store>>, <<StoreName, Store>>,
      <<ProductLine, SKU>>, <<Dept, SKU>>, <<Category, SKU>>,
      <<Qty, Quantity>>, <<SalesQty, Quantity>>,
      <<UnitPrice, Price>>, <<PricePerUnit, Price>>,
      <<InvoiceDate, Date>> }

\* df.columns = [c.strip().title() for c in df.columns]
CleanColumns(columns) == [i \in DOMAIN columns |-> Title(Strip(columns[i]))]

\* RenameWithoutDept: the renaming with Dept left as it is
RenameWithoutDept(columns) ==
    [i \in DOMAIN columns |->
        IF \E m \in column_mapping \ {<<Dept, SKU>>} : m[1] = columns[i]
        THEN (CHOOSE m \in column_mapping : m[1] = columns[i])[2]
        ELSE columns[i]]

\* df.rename(columns=column_mapping): a column whose name is a key is renamed
RenameColumns(columns) ==
    [i \in DOMAIN columns |->
        IF \E m \in column_mapping : m[1] = columns[i]
        THEN (CHOOSE m \in column_mapping : m[1] = columns[i])[2]
        ELSE columns[i]]

\* 'name' in df.columns
HasColumn(columns, name) == \E i \in DOMAIN columns : columns[i] = name
\* the position of column 'name'
ColumnIndex(columns, name) == CHOOSE i \in DOMAIN columns : columns[i] = name

(***************************************************************************)
(* DataFrames                                                              *)
(*                                                                         *)
(* A DataFrame is its column names and its rows; a row keeps its pandas    *)
(* index label idx (0, 1, ... in file order), which filtering preserves.   *)
(* What load_and_process_data gives its caller has one shape: kind "df"    *)
(* (a DataFrame is returned), "none" (None is returned after st.error, err *)
(* names the message) or "raise" (an exception propagates, err names it).  *)
(***************************************************************************)
ReturnNone(reason) == [kind |-> "none", err |-> reason, columns |-> <<>>, rows |-> <<>>]
Raise(exception)   == [kind |-> "raise", err |-> exception, columns |-> <<>>, rows |-> <<>>]

\* The empty CSV cell: pandas reads it as NaN.
NaN == ""
\* pd.NaT, a parsed date being <<year, month, day>>
NaT == <<>>

\* pd.read_csv(file): the header row and the data rows, indexed from 0
ReadCsv(file) ==
    [kind    |-> "df", err |-> "",
     columns |-> file.header,
     rows    |-> [i \in DOMAIN file.rows |->
                    [idx |-> i - 1, cells |-> file.rows[i]]]]

\* df[name] of one row
Cell(frame, row, name) == row.cells[ColumnIndex(frame.columns, name)]

\* df[name] = values (values[i] for the i-th row): replaces the column when
\* it exists, appends it otherwise
SetColumn(frame, name, values) ==
    IF HasColumn(frame.columns, name)
    THEN LET k == ColumnIndex(frame.columns, name)
         IN [frame EXCEPT !.rows =
                [i \in DOMAIN frame.rows |->
                    [frame.rows[i] EXCEPT !.cells[k] = values[i]]]]
    ELSE [frame EXCEPT
            !.columns = Append(frame.columns, name),
            !.rows    = [i \in DOMAIN frame.rows |->
                           [frame.rows[i] EXCEPT
                              !.cells = Append(frame.rows[i].cells, values[i])]]]

\* df[mask]: the rows whose mask entry is True, in order
RECURSIVE SelectFrom(_, _, _)
SelectFrom(rows, mask, i) ==
    IF i > Len(rows) THEN <<>>
    ELSE (IF mask[i] THEN <<rows[i]>> ELSE <<>>) \o SelectFrom(rows, mask, i + 1)
SelectRows(rows, mask) == SelectFrom(rows, mask, 1)

(***************************************************************************)
(* pd.to_datetime                                                          *)
(***************************************************************************)
\* The date strings of the model's inputs and the dates they parse to.
DateTable == { <<"2024-01-01", <<2024, 1, 1>> >>,
               <<"2024-01-02", <<2024, 1, 2>> >> }

\* A value pd.to_datetime (errors='raise', the default) converts: a date
\* string, or a missing value (which becomes NaT).
Parseable(c) == c = NaN \/ \E d \in DateTable : d[1] = c
ToDatetime(c) == IF c = NaN THEN NaT
                 ELSE (CHOOSE d \in DateTable : d[1] = c)[2]

(***************************************************************************)
(* numpy's global generator                                                *)
(***************************************************************************)
\* np.random.seed(42); np.random.randint(10, 100, size=12) (MT19937,
\* masked rejection sampling): the generator's output after seeding.
RandStream == <<61, 24, 81, 70, 30, 92, 96, 84, 84, 97, 33, 12>>

\* The generator's state is the number of values drawn since it was seeded.
\* SeedUnchanged: the generator not seeded before the draw.
SeedUnchanged(r) == r
\* np.random.seed(42)
Seed42(r) == 0

\* np.random.randint(10, 100, size=n) from state r.  The table wraps around;
\* after Seed42 only its first n entries are read.
Randint(r, n) == [i \in 1..n |-> RandStream[((r + i - 1) % Len(RandStream)) + 1]]
AfterRandint(r, n) == (r + n) % Len(RandStream)

\* float -> int of astype(int): truncation toward zero
TruncDiv(a, b) ==
    LET abs(x) == IF x < 0 THEN -x ELSE x
        q == abs(a) \div abs(b)
    IN IF (a < 0) = (b < 0) THEN q ELSE -q

(***************************************************************************)
(* load_and_process_data                                                   *)
(***************************************************************************)
\* Steps 2-3: the column names cleaned, then renamed by column_mapping
CleanAndRename(frame) ==
    [frame EXCEPT !.columns = RenameColumns(CleanColumns(frame.columns))]

\* Step 4, "Check Date": pd.to_datetime raises on a value it cannot parse;
\* without a Date column st.error is shown and None returned.
CheckDate(frame) ==
    IF HasColumn(frame.columns, Date)
    THEN IF \A i \in DOMAIN frame.rows : Parseable(Cell(frame, frame.rows[i], Date))
         THEN SetColumn(frame, Date,
                  [i \in DOMAIN frame.rows |->
                      ToDatetime(Cell(frame, frame.rows[i], Date))])
         ELSE Raise("DateParseError")
    ELSE ReturnNone("No 'Date' column found")

\* "Check Quantity": derived from Total / Price, or from Weekly_Sales and a
\* simulated Price; gives the frame and the generator's state.
\* A zero Price makes Total / Price inf or NaN, which astype(int) refuses.
CheckQuantity(frame, r) ==
    IF ~HasColumn(frame.columns, Quantity)
    THEN IF HasColumn(frame.columns, Total) /\ HasColumn(frame.columns, Price)
         THEN IF \E i \in DOMAIN frame.rows : Cell(frame, frame.rows[i], Price) = 0
              THEN [res |-> Raise("IntCastingNaNError"), rng |-> r]
              ELSE [res |-> SetColumn(frame, Quantity,
                               [i \in DOMAIN frame.rows |->
                                   TruncDiv(Cell(frame, frame.rows[i], Total),
                                            Cell(frame, frame.rows[i], Price))]),
                    rng |-> r]
         ELSE IF HasColumn(frame.columns, Weekly_Sales)
              THEN LET n == Len(frame.rows)
                       derive(seeded, priced) ==
                           [res |-> SetColumn(priced, Quantity,
                                       [i \in DOMAIN priced.rows |->
                                           TruncDiv(Cell(priced, priced.rows[i], Weekly_Sales),
                                                    Cell(priced, priced.rows[i], Price))]),
                            rng |-> AfterRandint(seeded, n)]
                   IN derive(Seed42(r), SetColumn(frame, Price, Randint(Seed42(r), n)))
              ELSE [res |-> frame, rng |-> r]
    ELSE [res |-> frame, rng |-> r]

\* "Ensure Quantity is positive": df = df[df['Quantity'] > 0]
EnsurePositive(frame) ==
    IF HasColumn(frame.columns, Quantity)
    THEN [frame EXCEPT !.rows =
            SelectRows(frame.rows,
                [i \in DOMAIN frame.rows |-> Cell(frame, frame.rows[i], Quantity) > 0])]
    ELSE frame

\* "Ensure SKU column exists"
CheckSKU(frame) ==
    IF ~HasColumn(frame.columns, SKU)
    THEN ReturnNone("Could not identify a Product/Dept column")
    ELSE frame

\* load_sku_first: the function with the SKU check made before the Date check
load_sku_first(file, r) ==
    LET afterQuantity(q) ==
            IF q.res.kind # "df" THEN q
            ELSE [res |-> EnsurePositive(q.res), rng |-> q.rng]
        afterDate(dated) ==
            IF dated.kind # "df" THEN [res |-> dated, rng |-> r]
            ELSE afterQuantity(CheckQuantity(dated, r))
        afterSku(named) ==
            IF named.kind # "df" THEN [res |-> named, rng |-> r]
            ELSE afterDate(CheckDate(named))
    IN afterSku(CheckSKU(CleanAndRename(ReadCsv(file))))

\* The function body: what it gives (res) and the generator's state after
\* it (rng), from the uploaded file and the generator's state r.
load_and_process_data(file, r) ==
    LET afterQuantity(q) ==
            IF q.res.kind # "df" THEN q
            ELSE [res |-> CheckSKU(EnsurePositive(q.res)), rng |-> q.rng]
        afterDate(dated) ==
            IF dated.kind # "df" THEN [res |-> dated, rng |-> r]
            ELSE afterQuantity(CheckQuantity(dated, r))
    IN afterDate(CheckDate(CleanAndRename(ReadCsv(file))))

(***************************************************************************)
(* @st.cache_data                                                          *)
(*                                                                         *)
(* The memo is keyed by the file's content.  The model keeps its newest    *)
(* entry; an older one counts as cleared, which ClearCache allows at any   *)
(* time.  A call that raises stores nothing.                               *)
(***************************************************************************)
NoFile     == [header |-> <<>>, rows |-> <<>>]
CacheEmpty == [full |-> FALSE, key |-> NoFile, value |-> ReturnNone("")]

\* Two files have the same content
SameFile(a, b) == a.header = b.header /\ a.rows = b.rows

CachedLoad(file, memo, r) ==
    IF memo.full /\ SameFile(memo.key, file)
    THEN [res |-> memo.value, rng |-> r, cache |-> memo, how |-> "cached"]
    ELSE LET store(out) ==
                 [res   |-> out.res,
                  rng   |-> out.rng,
                  cache |-> IF out.res.kind = "raise" THEN memo
                            ELSE [full |-> TRUE, key |-> file, value |-> out.res],
                  how   |-> "computed"]
         IN store(load_and_process_data(file, r))

(***************************************************************************)
(* The main script: sidebar widgets and calculations                       *)
(***************************************************************************)
\* st.sidebar.slider("Holding Cost %", 0.1, 0.5, 0.2, 0.05), in percent
DefaultHoldingCost == 20
\* st.sidebar.slider("Lead Time (Days)", 1, 30, 7)
DefaultLeadTime == 7
\* st.sidebar.number_input("Fixed Ordering Cost ($)", value=50)
DefaultOrderingCost == 50
\* avg_price = 50 # Fallback default
FallbackPrice == 50

\* The selectbox with no option to choose
NoSelection == "None"

\* str(value) of a SKU cell: NaN prints as 'nan'
AsStr(c) == IF c = NaN THEN "nan" ELSE c

\* Python's order of the SKU strings of the model's inputs
SkuOrder == <<"A", "B", "nan">>

\* sorted(df['SKU'].unique().astype(str))
sku_list(frame) ==
    LET present(s) == \E i \in DOMAIN frame.rows : AsStr(Cell(frame, frame.rows[i], SKU)) = s
    IN SelectSeq(SkuOrder, present)

\* st.sidebar.selectbox: the session's choice while it is an option, the
\* first option otherwise
selectbox(options, chosen) ==
    IF \E i \in DOMAIN options : options[i] = chosen THEN chosen
    ELSE IF options = <<>> THEN NoSelection ELSE options[1]

\* df[df['SKU'] == selected_sku]: NaN equals nothing
sku_data(frame, sku) ==
    [frame EXCEPT !.rows =
        SelectRows(frame.rows,
            [i \in DOMAIN frame.rows |-> Cell(frame, frame.rows[i], SKU) = sku])]

RECURSIVE SumOver(_, _)
SumOver(f, S) == IF S = {} THEN 0
                 ELSE LET x == CHOOSE x \in S : TRUE IN f[x] + SumOver(f, S \ {x})

\* sku_data.groupby('Date')['Quantity'].sum(): date |-> total quantity; the
\* rows whose Date is NaT belong to no group
daily_sales(data) ==
    LET dates == { Cell(data, data.rows[i], Date) : i \in DOMAIN data.rows } \ {NaT}
    IN [d \in dates |->
          SumOver([i \in DOMAIN data.rows |-> Cell(data, data.rows[i], Quantity)],
                  { i \in DOMAIN data.rows : Cell(data, data.rows[i], Date) = d })]

\* floor(sqrt(n)) by bisection: lo * lo <= n < hi * hi
RECURSIVE IsqrtBetween(_, _, _)
IsqrtBetween(n, lo, hi) ==
    IF hi - lo <= 1 THEN lo
    ELSE LET mid == (lo + hi) \div 2
         IN IF mid * mid <= n THEN IsqrtBetween(n, mid, hi)
            ELSE IsqrtBetween(n, lo, mid)
Isqrt(n) == IsqrtBetween(n, 0, 46340)

\* What one run of the script shows
View(kind, err, eoq, safety_stock, reorder_point, total_cost) ==
    [kind |-> kind, err |-> err, eoq |-> eoq, safety_stock |-> safety_stock,
     reorder_point |-> reorder_point, total_cost |-> total_cost]
Shows(kind)     == View(kind, "", 0, 0, 0, 0)
Uncaught(exception) == View("exception", exception, 0, 0, 0, 0)

\* Lines 123-150.  Exactly, with sumQ the total quantity over nDays days and
\* avg_price = pn / pd:
\*   eoq^2        = 2 * 365 * (sumQ / nDays) * oc / ((pn / pd) * (hc / 100))
\*   safety_stock = (sumQ / nDays) * lt * 1.65
\*   reorder      = (sumQ / nDays) * lt * 2.65
\*   total_cost^2 = 2 * 365 * (sumQ / nDays) * oc * (pn / pd) * (hc / 100)
\* and int() truncates.  numpy divides by zero to inf (or nan for 0 / 0),
\* which int() refuses: OverflowError, ValueError.
Calculations(data, hc, lt, oc) ==
    LET priced == HasColumn(data.columns, Price)
        metrics(nDays, sumQ, pn, pd) ==
            IF nDays = 0 THEN Shows("warning")
            ELSE IF pn * hc = 0
                 THEN IF sumQ * oc = 0 THEN Uncaught("ValueError")
                      ELSE Uncaught("OverflowError")
                 ELSE IF sumQ * oc = 0 THEN Uncaught("ValueError")
                      ELSE View("metrics", "",
                                Isqrt((73000 * sumQ * oc * pd) \div (nDays * pn * hc)),
                                (sumQ * lt * 165) \div (nDays * 100),
                                (sumQ * lt * 265) \div (nDays * 100),
                                Isqrt((73 * sumQ * oc * pn * hc) \div (nDays * pd * 10)))
        grouped(daily) ==
            metrics(Cardinality(DOMAIN daily),
                    SumOver(daily, DOMAIN daily),
                    IF priced
                    THEN SumOver([i \in DOMAIN data.rows |-> Cell(data, data.rows[i], Price)],
                                 DOMAIN data.rows)
                    ELSE FallbackPrice,
                    IF priced THEN Len(data.rows) ELSE 1)
    IN grouped(daily_sales(data))

\* The value of df before any file is loaded
NotLoaded == [kind |-> "unset", err |-> "", columns |-> <<>>, rows |-> <<>>]

\* One run of the script (lines 95-169) with the session's widget values:
\* the values of all variables after it.  Widgets that a run does not
\* render lose their session value.
Script(file, memo, r, sku, hc, lt, oc) ==
    LET reset(c, frame, how, shown) ==
            [cache |-> c.cache, rng |-> c.rng, df |-> frame, last_load |-> how,
             selected_sku |-> NoSelection, holding_cost |-> DefaultHoldingCost,
             lead_time |-> DefaultLeadTime, ordering_cost |-> DefaultOrderingCost,
             view |-> shown]
        sidebar(c, chosen) ==
            [cache |-> c.cache, rng |-> c.rng, df |-> c.res,
             last_load |-> c.how,
             selected_sku |-> chosen, holding_cost |-> hc,
             lead_time |-> lt, ordering_cost |-> oc,
             view |-> IF ~HasColumn(c.res.columns, Quantity)
                      THEN Uncaught("KeyError")
                      ELSE Calculations(sku_data(c.res, chosen), hc, lt, oc)]
        loaded(c) ==
            IF c.res.kind = "raise"
            THEN reset(c, c.res, c.how, Uncaught(c.res.err))
            ELSE IF c.res.kind = "none"
            THEN reset(c, c.res, c.how, View("error", c.res.err, 0, 0, 0, 0))
            ELSE sidebar(c, selectbox(sku_list(c.res), sku))
    IN IF file.header = <<>>
       THEN reset([cache |-> memo, rng |-> r], NotLoaded, "none", Shows("info"))
       ELSE loaded(CachedLoad(file, memo, r))

Rerun(file, sku, hc, lt, oc) ==
    \E after \in {Script(file, cache, rng, sku, hc, lt, oc)} :
       /\ sales_file' = sales_file
       /\ uploaded_file' = file
       /\ cache' = after.cache
       /\ rng' = after.rng
       /\ df' = after.df
       /\ last_load' = after.last_load
       /\ selected_sku' = after.selected_sku
       /\ holding_cost' = after.holding_cost
       /\ lead_time' = after.lead_time
       /\ ordering_cost' = after.ordering_cost
       /\ view' = after.view

(***************************************************************************)
(* The uploaded files of the model                                         *)
(***************************************************************************)
\* Raw spellings of column names
RawSKU         == <<"S","K","U">>
RawProductLine == <<"P","r","o","d","u","c","t"," ","l","i","n","e"," ">>
RawQty         == <<" ","q","t","y">>
RawUnitPrice   == <<"U","n","i","t"," ","p","r","i","c","e">>
RawCategory    == <<"C","A","T","E","G","O","R","Y">>
RawDate        == <<"d","a","t","e">>

\* A header: the column names, each with the field of a sales record that
\* the column holds
Headers ==
    { << <<Store, "store">>, <<RawSKU, "sku">>, <<Quantity, "qty">>,
         <<Price, "price">>, <<Date, "date">> >>,
      << <<Branch, "store">>, <<RawProductLine, "sku">>, <<RawQty, "qty">>,
         <<RawUnitPrice, "price">>, <<InvoiceDate, "date">> >>,
      << <<Store, "store">>, <<Dept, "sku">>, <<Weekly_Sales, "sales">>,
         <<Date, "date">> >>,
      << <<Store, "store">>, <<Dept, "sku">>, <<Weekly_Sales, "sales">> >>,
      << <<Store, "store">>, <<Weekly_Sales, "sales">> >>,
      << <<Store, "store">>, <<Dept, "sku">>, <<Date, "date">> >>,
      << <<Dept, "sku">>, <<Total, "total">>, <<Price, "price">>, <<Date, "date">> >>,
      << <<Dept, "sku">>, <<UnitPrice, "price">>, <<Weekly_Sales, "sales">>,
         <<Date, "date">> >>,
      << <<Store, "store">>, <<Quantity, "qty">>, <<Date, "date">> >>,
      << <<RawCategory, "sku">>, <<Quantity, "qty">>, <<RawDate, "date">> >> }

\* Sales records: a regular one, the same product in another store on
\* another day, a zero quantity, a zero price, an empty SKU cell, an empty
\* date cell and a date that does not parse
Record(store, sku, qty, price, sales, total, date) ==
    [store |-> store, sku |-> sku, qty |-> qty, price |-> price,
     sales |-> sales, total |-> total, date |-> date]
Records ==
    { Record(1, "A", 3, 20, 200, 60, "2024-01-01"),
      Record(2, "A", 5, 20, 200, 100, "2024-01-02"),
      Record(1, "B", 0, 20, 5, 10, "2024-01-01"),
      Record(1, "B", 2, 0, 200, 60, "2024-01-01"),
      Record(1, NaN, 3, 20, 200, 60, "2024-01-01"),
      Record(1, "A", 3, 20, 200, 60, NaN),
      Record(1, "A", 3, 20, 200, 60, "not a date") }

\* The file with header h whose rows hold the records recs
FileOf(h, recs) ==
    [header |-> [i \in DOMAIN h |-> h[i][1]],
     rows   |-> [k \in DOMAIN recs |-> [i \in DOMAIN h |-> recs[k][h[i][2]]]]]

\* The row contents of a file: up to MaxRows records
RecordLists == UNION { [1..n -> Records] : n \in 0..MaxRows }

\* The widget values the user moves between
HoldingCosts  == {DefaultHoldingCost, 50}
LeadTimes     == {1, DefaultLeadTime}
OrderingCosts == {0, DefaultOrderingCost}

(***************************************************************************)
(* The session                                                             *)
(***************************************************************************)
\* A session works on one sales file, sales_file, which the user uploads,
\* removes and uploads again; what a file leaves behind for the next one (the
\* memo entry of another content, the widget values) is reached within the
\* session by ClearCache and the widget actions.  The script's first run
\* shows the uploader alone.
Init ==
    /\ \E h \in Headers, recs \in RecordLists : sales_file = FileOf(h, recs)
    /\ uploaded_file = NoFile
    /\ cache = CacheEmpty
    /\ rng = 0
    /\ df = NotLoaded
    /\ last_load = "none"
    /\ selected_sku = NoSelection
    /\ holding_cost = DefaultHoldingCost
    /\ lead_time = DefaultLeadTime
    /\ ordering_cost = DefaultOrderingCost
    /\ view = Shows("info")

\* The sidebar is on the page
WidgetsRendered == df.kind = "df"

\* st.file_uploader: the file is chosen (or chosen again: the same content)
Upload ==
    /\ sales_file.header # <<>>
    /\ Rerun(sales_file, selected_sku, holding_cost, lead_time, ordering_cost)

\* st.file_uploader: the file is removed
RemoveFile ==
    /\ uploaded_file.header # <<>>
    /\ Rerun(NoFile, selected_sku, holding_cost, lead_time, ordering_cost)

SelectSku ==
    /\ WidgetsRendered
    /\ \E i \in DOMAIN sku_list(df) :
          /\ sku_list(df)[i] # selected_sku
          /\ Rerun(uploaded_file, sku_list(df)[i], holding_cost, lead_time, ordering_cost)

SetHoldingCost ==
    /\ WidgetsRendered
    /\ \E hc \in HoldingCosts \ {holding_cost} :
          Rerun(uploaded_file, selected_sku, hc, lead_time, ordering_cost)

SetLeadTime ==
    /\ WidgetsRendered
    /\ \E lt \in LeadTimes \ {lead_time} :
          Rerun(uploaded_file, selected_sku, holding_cost, lt, ordering_cost)

SetOrderingCost ==
    /\ WidgetsRendered
    /\ \E oc \in OrderingCosts \ {ordering_cost} :
          Rerun(uploaded_file, selected_sku, holding_cost, lead_time, oc)

\* "Clear cache" in the app menu: no rerun
ClearCache ==
    /\ cache.full
    /\ cache' = CacheEmpty
    /\ UNCHANGED <<sales_file, uploaded_file, rng, df, last_load, selected_sku,
                   holding_cost, lead_time, ordering_cost, view>>

Next == \/ Upload
        \/ RemoveFile
        \/ SelectSku
        \/ SetHoldingCost
        \/ SetLeadTime
        \/ SetOrderingCost
        \/ ClearCache

Spec == Init /\ [][Next]_vars

(***************************************************************************)
(* Properties                                                              *)
(***************************************************************************)
\* The uploaded file's column names after cleaning, and after aliasing too
Cleaned == CleanColumns(uploaded_file.header)
Aliased == RenameColumns(Cleaned)
Loaded  == uploaded_file.header # <<>>

\* The uploaded file's cell of a returned row, in the column aliased to name
InputCell(row, name) == uploaded_file.rows[row.idx + 1][ColumnIndex(Aliased, name)]
\* The returned rows
Returned == { df.rows[i] : i \in DOMAIN df.rows }

\* A date cell that holds something pd.to_datetime cannot parse
Unparseable(c) == ~Parseable(c)
\* Some cell of the uploaded Date column parses to a date / does not parse
DateCells == { uploaded_file.rows[i][ColumnIndex(Aliased, Date)] : i \in DOMAIN uploaded_file.rows }

SameResult(a, b) ==
    /\ a.kind = b.kind
    /\ a.err = b.err
    /\ a.columns = b.columns
    /\ a.rows = b.rows

NoDateReason == "No 'Date' column found"
NoSkuReason  == "Could not identify a Product/Dept column"

\* C1: every record of a returned dataset has a non-null Date, a non-null
\* SKU and a Quantity that is present and > 0.
C1_ReturnedRecordsValid ==
    df.kind = "df" =>
        \A row \in Returned :
            /\ HasColumn(df.columns, Date) /\ Cell(df, row, Date) # NaT
            /\ HasColumn(df.columns, SKU) /\ Cell(df, row, SKU) # NaN
            /\ HasColumn(df.columns, Quantity) /\ Cell(df, row, Quantity) > 0

\* C2: a file whose header is exactly Store, SKU, Quantity, Price, Date and
\* whose rows are all valid is returned as it is: same column names, same
\* rows, same Store, SKU, Quantity and Price values; nothing is rejected.
C2_CanonicalInput ==
    /\ uploaded_file.header = <<Store, SKU, Quantity, Price, Date>>
    /\ uploaded_file.rows # <<>>
    /\ \A i \in DOMAIN uploaded_file.rows :
          LET cells == uploaded_file.rows[i]
          IN /\ cells[2] # NaN
             /\ cells[3] > 0
             /\ cells[4] > 0
             /\ cells[5] # NaN /\ Parseable(cells[5])
C2_RoundTripIdentity ==
    C2_CanonicalInput =>
        /\ df.kind = "df"
        /\ df.columns = uploaded_file.header
        /\ Len(df.rows) = Len(uploaded_file.rows)
        /\ \A i \in DOMAIN df.rows :
              /\ df.rows[i].idx = i - 1
              /\ \A k \in 1..4 : df.rows[i].cells[k] = uploaded_file.rows[i][k]

\* C3: a file with no Date column after cleaning and aliasing is rejected
\* with the missing-date reason, whatever its other columns: no dataset is
\* returned, no SKU is selected and no metric is computed.
C3_NoDateRejected ==
    (Loaded /\ ~HasColumn(Aliased, Date)) =>
        /\ df.kind = "none"
        /\ df.err = NoDateReason
        /\ df.columns = <<>> /\ df.rows = <<>>
        /\ view = View("error", NoDateReason, 0, 0, 0, 0)
        /\ selected_sku = NoSelection
C3_Witness ==
    /\ Loaded
    /\ ~HasColumn(Aliased, Date) /\ ~HasColumn(Aliased, SKU)
    /\ uploaded_file.rows # <<>>
    /\ df.kind = "none" /\ view.kind = "error"

\* The composite grouping key "Store {store} - Dept {dept}"
Composite(store, dept) == "Store " \o ToString(store) \o " - Dept " \o AsStr(dept)

\* The cleaned names that column_mapping renames to SKU
SkuAliases == {ProductLine, Dept, Category}
\* The uploaded file's cell of a returned row, in the column cleaned to name
CleanedCell(row, name) == uploaded_file.rows[row.idx + 1][ColumnIndex(Cleaned, name)]

Floor(a, b) == a \div b

\* C5: Quantity is resolved by the first applicable rule: (a) an existing
\* Quantity column is used as it is; (b) else with Total and Price,
\* Quantity = floor(Total / Price); (c) else with Weekly_Sales and no Price,
\* a price in [10, 100) is synthesized and Quantity = floor(Weekly_Sales /
\* Price); (d) else Quantity stays absent, the file is still accepted, the
\* dataset has no rows and the calculator reports insufficient data.
C5_QuantityResolution ==
    LET hasQ == HasColumn(Aliased, Quantity)
        hasT == HasColumn(Aliased, Total)
        hasP == HasColumn(Aliased, Price)
        hasW == HasColumn(Aliased, Weekly_Sales)
        ruleB == ~hasQ /\ hasT /\ hasP
        ruleC == ~hasQ /\ ~ruleB /\ hasW /\ ~hasP
        ruleD == ~hasQ /\ ~ruleB /\ ~ruleC
    IN /\ (df.kind = "df" /\ hasQ) =>
             \A row \in Returned : Cell(df, row, Quantity) = InputCell(row, Quantity)
       /\ (df.kind = "df" /\ ruleB) =>
             \A row \in Returned :
                Cell(df, row, Quantity) = Floor(InputCell(row, Total), InputCell(row, Price))
       /\ (df.kind = "df" /\ ruleC) =>
             \A row \in Returned :
                /\ Cell(df, row, Price) \in 10..99
                /\ Cell(df, row, Quantity) =
                      Floor(InputCell(row, Weekly_Sales), Cell(df, row, Price))
       /\ (Loaded /\ ruleD /\ HasColumn(Aliased, Date) /\ HasColumn(Aliased, SKU)
             /\ uploaded_file.rows # <<>>
             /\ \A c \in DateCells : Parseable(c))
          => /\ df.kind = "df"
             /\ ~HasColumn(df.columns, Quantity)
             /\ df.rows = <<>>
             /\ view.kind = "warning"

\* The price column is synthesized: the file has no price and Quantity is
\* derived from Weekly_Sales
PriceSynthesized ==
    /\ df.kind = "df"
    /\ ~HasColumn(Aliased, Price)
    /\ ~HasColumn(Aliased, Quantity)
    /\ HasColumn(Aliased, Weekly_Sales)

\* The uploaded file with its rows in the order p
Permuted(p) == [uploaded_file EXCEPT !.rows = [i \in DOMAIN p |-> uploaded_file.rows[p[i]]]]
RowOrders == { p \in [DOMAIN uploaded_file.rows -> DOMAIN uploaded_file.rows] :
                    \A i, j \in DOMAIN p : p[i] = p[j] => i = j }

\* C6: a synthesized price is an integer in [10, 100), the same for all
\* records of one SKU, and the same for a SKU in every order of the rows.
C6_PricePerSku ==
    PriceSynthesized =>
        /\ \A row \in Returned : Cell(df, row, Price) \in 10..99
        /\ \A r1, r2 \in Returned :
              Cell(df, r1, SKU) = Cell(df, r2, SKU)
                 => Cell(df, r1, Price) = Cell(df, r2, Price)
        /\ \A p \in RowOrders :
              LET again == load_and_process_data(Permuted(p), rng).res
              IN \A r1 \in Returned :
                    \A i \in DOMAIN again.rows :
                       Cell(df, r1, SKU) = Cell(again, again.rows[i], SKU)
                          => Cell(df, r1, Price) = Cell(again, again.rows[i], Price)

\* C7: for the uploaded file, the dataset in use is, at every step of the
\* session, what normalizing the file gives now, and what the memo holds
\* for it.
C7_DatasetStable ==
    Loaded =>
        /\ SameResult(df, load_and_process_data(uploaded_file, rng).res)
        /\ (cache.full /\ SameFile(cache.key, uploaded_file))
              => SameResult(cache.value, df)
\* A dataset with synthesized prices, served from the memo after a
\* parameter change
C7_Witness ==
    /\ PriceSynthesized
    /\ df.rows # <<>>
    /\ last_load = "cached"
    /\ holding_cost # DefaultHoldingCost
    /\ view.kind = "metrics"

\* C8: with a Date column of which some values parse to a date and some
\* do not parse, the file is not rejected for its dates and no exception is
\* raised: the rows whose date does not parse are dropped and the others go
\* on through normalization.
C8_BadDatesDropped ==
    (Loaded /\ HasColumn(Aliased, Date)
        /\ (\E c \in DateCells : Unparseable(c))
        /\ (\E c \in DateCells : c # NaN /\ Parseable(c)))
    => /\ df.kind # "raise"
       /\ view.err # "DateParseError"
       /\ ~(df.kind = "none" /\ df.err = NoDateReason)
       /\ df.kind = "df" => \A row \in Returned : Parseable(InputCell(row, Date))

\* The selected SKU's records, when the calculation is reached
Selected == sku_data(df, selected_sku)
\* avgPrice * holdingCostRate == 0 for the selected SKU
ZeroDenominator ==
    /\ HasColumn(df.columns, Price)
    /\ \A i \in DOMAIN Selected.rows : Cell(Selected, Selected.rows[i], Price) = 0

\* C9: in the calculation for a SKU with non-empty daily demand, a zero
\* avgPrice * holdingCostRate is reported as an InvalidParameterError: no
\* exception, no metrics.
C9_ZeroDenominatorValidated ==
    (df.kind = "df" /\ HasColumn(df.columns, Quantity)
        /\ DOMAIN daily_sales(Selected) # {} /\ ZeroDenominator)
    => view = View("error", "InvalidParameterError", 0, 0, 0, 0)

\* C10: a price that the file supplies (a Price column, directly or by an
\* alias) is the price of every returned record.
C10_InputPriceKept ==
    (df.kind = "df" /\ HasColumn(Aliased, Price)) =>
        \A row \in Returned : Cell(df, row, Price) = InputCell(row, Price)

====
